---- MODULE Spec2Model ----
(***************************************************************************)
(* The task orchestration layer of src/services/agent_orchestrator.py:     *)
(* AgentOrchestrator (queue, active registry, completed history, metrics,  *)
(* start/stop, the _task_processor loop, _execute_task, _select_agent) and *)
(* the four workers of its pool.  asyncio is cooperative: a coroutine runs *)
(* without interruption between two suspension points, so one action is    *)
(* the code between two awaits that can suspend.                           *)
(***************************************************************************)
EXTENDS Integers, Sequences, FiniteSets, TLC

\* ---------------------------------------------------------------- bounds

\* Number of submit_task calls explored.
MaxTasks == 3

\* Number of _task_processor coroutines alive at once (start() creates one
\* per call; nothing in the code bounds it).
MaxLoops == 2

\* The history limit of _execute_task, 1000 in the code (lines 635-636),
\* scaled down so that the trimming is reached with MaxTasks tasks.
HistoryCap == 2

\* ------------------------------------------------------------- constants

None == "None"

PENDING == "pending"
IN_PROGRESS == "in_progress"
COMPLETED == "completed"
FAILED == "failed"
CANCELLED == "cancelled"

TaskStatus == {PENDING, IN_PROGRESS, COMPLETED, FAILED, CANCELLED}

\* self.agents: the keys of the pool, in the dict's insertion order.
AgentOrder == <<"template", "server", "coordinator", "monitor">>

AgentKeys == {AgentOrder[i] : i \in 1..Len(AgentOrder)}

\* Agent.name of the worker stored under each key of the pool.
AgentName(k) ==
    CASE k = "template" -> "TemplateAgent"
      [] k = "server" -> "ServerAgent"
      [] k = "coordinator" -> "CoordinatorAgent"
      [] k = "monitor" -> "MonitorAgent"
      [] OTHER -> None

\* The type lists of _select_agent.
TemplateTypes == {"search_templates", "analyze_template", "recommend_templates", "categorize_templates"}

ServerTypes == {"import_template", "export_workflow", "activate_workflow", "deactivate_workflow", "get_workflows", "monitor_system"}

CoordinatorTypes == {"coordinate_agents", "plan_execution"}

MonitorTypes == {"system_health", "performance_analysis"}

\* The if/elif chains of TemplateAgent.execute_task and
\* ServerAgent.execute_task: the types each worker has a handler for.
Handles(k, type) ==
    CASE k = "template" -> type \in TemplateTypes
      [] k = "server" -> type \in ServerTypes
      [] OTHER -> TRUE

\* What the handler of a type can do: return a result with success = True,
\* return a result with success = False, or raise (a collaborator error).
\* _search_templates builds its own success result, so it returns
\* success = True or raises; _import_template hands back the collaborator's
\* result, which may report failure.
HandlerOutcomes(type) ==
    IF type = "search_templates" THEN {"success", "exception"}
    ELSE {"success", "failure", "exception"}

\* The submit_task calls explored: (type, required_agent).
Requests ==
    { <<"search_templates", None>>,
      <<"import_template", None>>,
      <<"coordinate_agents", None>>,
      <<"bogus_type", None>>,
      <<"import_template", "template">>,
      <<"bogus_type", "ghost">> }

\* TaskPriority and the values of its members.
TaskPriority == {"CRITICAL", "HIGH", "MEDIUM", "LOW"}

PriorityValue(p) ==
    CASE p = "CRITICAL" -> 1
      [] p = "HIGH" -> 2
      [] p = "MEDIUM" -> 3
      [] p = "LOW" -> 4

\* The submit_task calls explored for the routing of tasks: (type,
\* priority, required_agent), later ones with higher priorities, a pin to a
\* worker that does not exist on a type of the routing table.
RoutingRequests ==
    { <<"search_templates", "LOW", None>>,
      <<"import_template", "MEDIUM", None>>,
      <<"bogus_type", "CRITICAL", None>>,
      <<"search_templates", "HIGH", "ghost">> }

NoResult == [set |-> FALSE, success |-> FALSE, error |-> None]

\* ----------------------------------------------------------------- state

\* Conversation messages stored per user in an explored behaviour.
MaxStored == 13

\* "limit: int = 10" of MemoryService.get_conversation_history.
DefaultLimit == 10

\* "if len(conversation) > 50: conversation = conversation[-50:]".
ConversationCap == 50

\* The user ids conversations are stored for.
UserIds == {1, 2}

\* Conversation messages stored per user where the stores under other keys
\* are explored too.
MaxKeyMessages == 2

\* A key of a user's dict is a string, written as the sequence of the
\* pieces it is concatenated from.  The key store_conversation uses:
ConversationKey == <<"conversation">>

\* 'f"long_{key}"' of store_long_term and get_long_term.
LongKey(key) == <<"long_">> \o key

\* The key arguments explored: a plain key, a key that starts with
\* "long_", and the key of the conversation.
Keys == {<<"k">>, <<"long_", "k">>, ConversationKey}

\* The keys a user's dict can hold.
DictKeys == Keys \cup {LongKey(key) : key \in Keys}

\* The data arguments explored for the short-term and long-term stores: a
\* one-element list holding 0, which is no message number.
Values == {<<0>>}

\* A key that is not in the user's dict.
NoItem == [set |-> FALSE, data |-> <<>>, live |-> FALSE]

VARIABLES
    running,          \* self.running
    task_queue,       \* self.task_queue: ids of the queued task dicts, FIFO
    active_tasks,     \* self.active_tasks: the keys of the dict
    completed_tasks,  \* self.completed_tasks: ids, in list order
    system_metrics,   \* self.system_metrics (the three counters)
    agents,           \* self.agents: each worker's is_busy, current_task, counters
    task,             \* the task dicts, by id
    pc,               \* position of each task's _execute_task coroutine
    loopsAtWhile,     \* _task_processor coroutines about to test self.running
    loopsAtGet,       \* _task_processor coroutines suspended in task_queue.get()
    evicted,          \* ids dropped from completed_tasks by the history limit
    waiter,           \* the get_task_result call: its position and the id it waits for
    lifecycle,        \* "initial", "stopped" once stop() was called, "restarted" once start() followed
    stale,            \* ids that were in task_queue when stop() was called
    renewed,          \* ids submitted after a start() that followed a stop()
    local_memory,     \* MemoryService.local_memory: per user, the item under each key
    stored            \* per user: messages stored so far, and since the item last expired

vars == <<running, task_queue, active_tasks, completed_tasks, system_metrics, agents, task, pc, loopsAtWhile, loopsAtGet, evicted, waiter, lifecycle, stale, renewed, local_memory, stored>>

\* The record of the lifecycle calls made so far; no code reads it.  It is
\* kept by RestartSpec (lifecycle, renewed) and StaleSpec (stale) and left
\* at its initial value by the other specifications.
observed == <<lifecycle, stale, renewed>>

\* The state of the orchestrator and of its callers.
orchestrator == <<running, task_queue, active_tasks, completed_tasks, system_metrics, agents, task, pc, loopsAtWhile, loopsAtGet, evicted, waiter>>

\* The state of the MemoryService the workers are built with; the
\* orchestrator stores no conversation.
memory == <<local_memory, stored>>

Submitted == DOMAIN task

\* AgentOrchestrator.__init__ and Agent.__init__.
Init ==
    /\ running = FALSE
    /\ task_queue = <<>>
    /\ active_tasks = {}
    /\ completed_tasks = <<>>
    /\ system_metrics = [total_tasks |-> 0, completed_tasks |-> 0, failed_tasks |-> 0]
    /\ agents = [k \in AgentKeys |-> [is_busy |-> FALSE, current_task |-> 0, tasks_completed |-> 0, tasks_failed |-> 0]]
    /\ task = <<>>
    /\ pc = <<>>
    /\ loopsAtWhile = 0
    /\ loopsAtGet = 0
    /\ evicted = {}
    /\ waiter = [at |-> "idle", id |-> 0]
    /\ lifecycle = "initial"
    /\ stale = {}
    /\ renewed = {}
    /\ local_memory = [u \in UserIds |-> [dk \in DictKeys |-> NoItem]]
    /\ stored = [u \in UserIds |-> [total |-> 0, fresh |-> 0]]

\* --------------------------------------------------------------- helpers

Range(s) == {s[i] : i \in 1..Len(s)}

\* "if task.get('required_agent')": None and '' are falsy.
IsPinned(t) == task[t].required_agent \notin {None, ""}

\* A fallback that takes the first idle worker, whatever the counters.
BestAgentFirstIdle(ag) ==
    LET available == {i \in 1..Len(AgentOrder) : ~ag[AgentOrder[i]].is_busy}
    IN  IF available = {} THEN None
        ELSE AgentOrder[CHOOSE i \in available : \A j \in available : i <= j]

\* The fallback of _select_agent: max(available_agents, key=tasks_completed)
\* over the workers that are not busy, in the dict's order; max returns the
\* first of several maximal elements.
BestAgent(ag) ==
    LET available == {i \in 1..Len(AgentOrder) : ~ag[AgentOrder[i]].is_busy}
        IsMax(i) == \A j \in available : ag[AgentOrder[j]].tasks_completed <= ag[AgentOrder[i]].tasks_completed
        first == CHOOSE i \in available : IsMax(i) /\ \A j \in available : IsMax(j) => i <= j
    IN  IF available = {} THEN None ELSE AgentOrder[first]

\* A selection that falls back to the type table and the idle workers when
\* the pin names no worker.
SelectAgentPinFallsBack(t) ==
    IF IsPinned(t) /\ task[t].required_agent \in AgentKeys THEN task[t].required_agent
    ELSE IF task[t].type \in TemplateTypes THEN "template"
    ELSE IF task[t].type \in ServerTypes THEN "server"
    ELSE IF task[t].type \in CoordinatorTypes THEN "coordinator"
    ELSE IF task[t].type \in MonitorTypes THEN "monitor"
    ELSE BestAgent(agents)

\* A selection that gives a task of a listed type to another worker when
\* the worker of the type table is busy.
SelectAgentAvoidsBusy(t) ==
    LET listed == IF task[t].type \in TemplateTypes THEN "template"
                  ELSE IF task[t].type \in ServerTypes THEN "server"
                  ELSE IF task[t].type \in CoordinatorTypes THEN "coordinator"
                  ELSE IF task[t].type \in MonitorTypes THEN "monitor"
                  ELSE None
    IN  IF IsPinned(t)
        THEN IF task[t].required_agent \in AgentKeys THEN task[t].required_agent ELSE None
        ELSE IF listed # None /\ ~agents[listed].is_busy THEN listed
        ELSE BestAgent(agents)

\* A selection that consults the type table before the pin.
SelectAgentTableFirst(t) ==
    IF task[t].type \in TemplateTypes THEN "template"
    ELSE IF task[t].type \in ServerTypes THEN "server"
    ELSE IF task[t].type \in CoordinatorTypes THEN "coordinator"
    ELSE IF task[t].type \in MonitorTypes THEN "monitor"
    ELSE IF IsPinned(t)
    THEN IF task[t].required_agent \in AgentKeys THEN task[t].required_agent ELSE None
    ELSE BestAgent(agents)

\* AgentOrchestrator._select_agent: the key of the selected worker, or None.
SelectAgent(t) ==
    IF IsPinned(t)
    THEN IF task[t].required_agent \in AgentKeys THEN task[t].required_agent ELSE None
    ELSE IF task[t].type \in TemplateTypes THEN "template"
    ELSE IF task[t].type \in ServerTypes THEN "server"
    ELSE IF task[t].type \in CoordinatorTypes THEN "coordinator"
    ELSE IF task[t].type \in MonitorTypes THEN "monitor"
    ELSE BestAgent(agents)

\* A get that leaves the task at the head of the queue.
QueueGetKeepsHead(q) == q

\* task_queue.get(): what is left in the queue after the head was taken.
QueueGet(q) == Tail(q)

\* A dispatcher that forgets to register the task.
RegisterForgotten(active, t) == active

\* "self.active_tasks[task['id']] = task".
Register(active, t) == active \cup {t}

\* An execution activity that leaves the task in the active registry.
UnregisterForgotten(active, t) == active

\* "if task['id'] in self.active_tasks: del self.active_tasks[task['id']]".
Unregister(active, t) == active \ {t}

\* An execution activity that records a finished task twice.
AppendHistoryTwice(h, t) == Append(Append(h, t), t)

\* A finished task that is not recorded in the history.
AppendHistoryForgotten(h, t) == h

\* An execution activity that does not record a task whose caller has given
\* up waiting for it.
AppendHistoryUnlessAbandoned(h, t) ==
    IF waiter.at = "absent" /\ waiter.id = t THEN h ELSE Append(h, t)

\* "self.completed_tasks.append(task)".
AppendHistory(h, t) == Append(h, t)

\* A trim that keeps the head of the list (completed_tasks[:1000]).
TrimHistoryKeepsOldest(h) ==
    IF Len(h) > HistoryCap THEN SubSeq(h, 1, HistoryCap) ELSE h

\* "if len(self.completed_tasks) > 1000: self.completed_tasks =
\* self.completed_tasks[-1000:]".
TrimHistory(h) ==
    IF Len(h) > HistoryCap THEN SubSeq(h, Len(h) - HistoryCap + 1, Len(h)) ELSE h

\* Agent.update_performance: the counters of a worker after a result.
UpdatePerformance(a, result) ==
    IF result.success
    THEN [a EXCEPT !.tasks_completed = @ + 1]
    ELSE [a EXCEPT !.tasks_failed = @ + 1]

\* The result TemplateAgent.execute_task / ServerAgent.execute_task returns
\* for a task of the given type when its handler ends with the given outcome:
\* no handler for the type gives the 'Unknown task type' failure, an
\* exception is caught and turned into {'success': False, 'error': str(e)}.
WorkerResult(k, type, outcome) ==
    IF ~Handles(k, type) THEN [set |-> TRUE, success |-> FALSE, error |-> "Unknown task type"]
    ELSE IF outcome = "success" THEN [set |-> TRUE, success |-> TRUE, error |-> None]
    ELSE IF outcome = "failure" THEN [set |-> TRUE, success |-> FALSE, error |-> "collaborator failure"]
    ELSE [set |-> TRUE, success |-> FALSE, error |-> "collaborator exception"]

\* CoordinatorAgent.execute_task / MonitorAgent.execute_task: a fixed
\* success result, whatever the task.
StubResult == [set |-> TRUE, success |-> TRUE, error |-> None]

\* Template and server workers without their "except Exception" clause.
ExecuteRaisesFromWorkers(k) == k \in {"template", "server"}

\* Whether execute_task of the worker lets an exception escape to
\* _execute_task.  Template and server workers catch Exception, the other
\* two have nothing that raises.
ExecuteRaises(k) == FALSE

\* An execution activity that marks a failed task CANCELLED.
ResultStatusCancelsFailure(result) == IF result.success THEN COMPLETED ELSE CANCELLED

\* An execution activity that leaves a failed task IN_PROGRESS.
ResultStatusFailureForgotten(result) == IF result.success THEN COMPLETED ELSE IN_PROGRESS

\* The status _execute_task gives a task from the result of its worker.
ResultStatus(result) == IF result.success THEN COMPLETED ELSE FAILED

\* The key of the pool under which the worker assigned to a task is stored.
AssignedKey(t) == CHOOSE k \in AgentKeys : AgentName(k) = task[t].assigned_agent

\* ------------------------------------------------------------ operations

\* A start() that sets the flag and creates no dispatcher.
StartSetsFlagOnly ==
    /\ running' = TRUE
    /\ UNCHANGED <<task_queue, active_tasks, completed_tasks, system_metrics, agents, task, pc, loopsAtWhile, loopsAtGet, evicted, waiter>>

\* AgentOrchestrator.start: one more _task_processor coroutine.  The
\* _agent_monitor and _reflection_loop coroutines it also creates only read
\* and log.
Start ==
    /\ loopsAtWhile + loopsAtGet < MaxLoops
    /\ running' = TRUE
    /\ loopsAtWhile' = loopsAtWhile + 1
    /\ UNCHANGED <<task_queue, active_tasks, completed_tasks, system_metrics, agents, task, pc, loopsAtGet, evicted, waiter>>

\* AgentOrchestrator.stop.
Stop ==
    /\ running
    /\ running' = FALSE
    /\ UNCHANGED <<task_queue, active_tasks, completed_tasks, system_metrics, agents, task, pc, loopsAtWhile, loopsAtGet, evicted, waiter>>

\* A queue that puts a task ahead of the queued tasks of lower priority.
EnqueueByPriority(q, id, priority) ==
    LET ahead == {i \in 1..Len(q) : PriorityValue(task[q[i]].priority) <= PriorityValue(priority)}
        n == Cardinality(ahead)
    IN  [i \in 1..(Len(q) + 1) |->
            IF i <= n THEN q[i] ELSE IF i = n + 1 THEN id ELSE q[i - 1]]

\* "await self.task_queue.put(task)" on an asyncio.Queue: the task goes to
\* the end, whatever its priority.
Enqueue(q, id, priority) == Append(q, id)

\* AgentOrchestrator.submit_task: the id is fresh (uuid4).
SubmitTaskPriority(type, priority, required_agent) ==
    LET id == Cardinality(Submitted) + 1
    IN  /\ id <= MaxTasks
        /\ task' = [i \in Submitted \cup {id} |->
                      IF i = id
                      THEN [type |-> type, priority |-> priority, required_agent |-> required_agent, status |-> PENDING, assigned_agent |-> None, error |-> None, result |-> NoResult]
                      ELSE task[i]]
        /\ pc' = [i \in Submitted \cup {id} |-> IF i = id THEN "queued" ELSE pc[i]]
        /\ task_queue' = Enqueue(task_queue, id, priority)
        /\ system_metrics' = [system_metrics EXCEPT !.total_tasks = @ + 1]
        /\ UNCHANGED <<running, active_tasks, completed_tasks, agents, loopsAtWhile, loopsAtGet, evicted, waiter>>

\* submit_task called without a priority: "priority: TaskPriority =
\* TaskPriority.MEDIUM".
SubmitTask(type, required_agent) == SubmitTaskPriority(type, "MEDIUM", required_agent)

\* _task_processor, "while self.running": enter the body and suspend in
\* task_queue.get(), or leave the loop for good.
LoopTest ==
    /\ loopsAtWhile > 0
    /\ loopsAtWhile' = loopsAtWhile - 1
    /\ loopsAtGet' = IF running THEN loopsAtGet + 1 ELSE loopsAtGet
    /\ UNCHANGED <<running, task_queue, active_tasks, completed_tasks, system_metrics, agents, task, pc, evicted, waiter>>

\* _task_processor, asyncio.TimeoutError: nothing was queued for a second.
LoopTimeout ==
    /\ loopsAtGet > 0
    /\ task_queue = <<>>
    /\ loopsAtGet' = loopsAtGet - 1
    /\ loopsAtWhile' = loopsAtWhile + 1
    /\ UNCHANGED <<running, task_queue, active_tasks, completed_tasks, system_metrics, agents, task, pc, evicted, waiter>>

\* A dispatcher that takes the next task only when no execution is in flight.
DispatchReadyWhenIdle == loopsAtGet > 0 /\ task_queue # <<>> /\ active_tasks = {}

\* "task = await asyncio.wait_for(self.task_queue.get(), timeout=1.0)"
\* returns in a dispatcher suspended there as soon as a task is queued.
DispatchReady == loopsAtGet > 0 /\ task_queue # <<>>

\* One pass of the polling loop of get_task_result: the id of the task it
\* returns, or 0 when it finds none and goes to sleep.
GetTaskResultOnce(id) ==
    IF id \in Range(completed_tasks) THEN id
    ELSE IF id \in active_tasks /\ task[id].status \in {COMPLETED, FAILED} THEN id
    ELSE 0

\* _task_processor, one iteration that got a task: select the worker, then
\* either fail the task on the spot or mark it, register it and create its
\* _execute_task coroutine.  self.running is not read again before that.
Dispatch ==
    /\ DispatchReady
    /\ LET t == Head(task_queue)
           agent == SelectAgent(t)
       IN  /\ task_queue' = QueueGet(task_queue)
           /\ IF agent = None
              THEN /\ task' = [task EXCEPT ![t].status = FAILED, ![t].error = "No suitable agent found"]
                   /\ completed_tasks' = AppendHistory(completed_tasks, t)
                   /\ pc' = [pc EXCEPT ![t] = "done"]
                   /\ UNCHANGED active_tasks
              ELSE /\ task' = [task EXCEPT ![t].status = IN_PROGRESS, ![t].assigned_agent = AgentName(agent)]
                   /\ active_tasks' = Register(active_tasks, t)
                   /\ pc' = [pc EXCEPT ![t] = "created"]
                   /\ UNCHANGED completed_tasks
    /\ loopsAtGet' = loopsAtGet - 1
    /\ loopsAtWhile' = loopsAtWhile + 1
    /\ UNCHANGED <<running, system_metrics, agents, evicted, waiter>>

\* _execute_task after "result = await agent.execute_task(task)" returned
\* (raised = FALSE) or raised (raised = TRUE), with the workers as the
\* worker left them.  Nothing suspends in between.
FinishTask(t, result, raised, agentsAfter) ==
    /\ agents' = agentsAfter
    /\ active_tasks' = Unregister(active_tasks, t)
    /\ pc' = [pc EXCEPT ![t] = "done"]
    /\ IF ~raised
       THEN LET appended == AppendHistory(completed_tasks, t)
            IN  /\ task' = [task EXCEPT ![t].result = result, ![t].status = ResultStatus(result)]
                /\ system_metrics' = IF result.success
                                     THEN [system_metrics EXCEPT !.completed_tasks = @ + 1]
                                     ELSE [system_metrics EXCEPT !.failed_tasks = @ + 1]
                /\ completed_tasks' = TrimHistory(appended)
                /\ evicted' = evicted \cup (Range(appended) \ Range(TrimHistory(appended)))
       ELSE /\ task' = [task EXCEPT ![t].status = FAILED, ![t].error = "exception"]
            /\ system_metrics' = [system_metrics EXCEPT !.failed_tasks = @ + 1]
            /\ completed_tasks' = AppendHistory(completed_tasks, t)
            /\ UNCHANGED evicted
    /\ UNCHANGED <<running, task_queue, loopsAtWhile, loopsAtGet, waiter>>

\* The _execute_task coroutine of a task given to the template or server
\* worker starts: execute_task sets is_busy and current_task and suspends
\* in its first await (self.think, then the handler's collaborator call).
WorkerBegin(t) ==
    /\ t \in Submitted
    /\ pc[t] = "created"
    /\ AssignedKey(t) \in {"template", "server"}
    /\ agents' = [agents EXCEPT ![AssignedKey(t)].is_busy = TRUE, ![AssignedKey(t)].current_task = t]
    /\ pc' = [pc EXCEPT ![t] = "executing"]
    /\ UNCHANGED <<running, task_queue, active_tasks, completed_tasks, system_metrics, task, loopsAtWhile, loopsAtGet, evicted, waiter>>

\* A worker whose cleanup forgets the busy flag.
ReleaseKeepsBusy(a) == [a EXCEPT !.current_task = 0]

\* "finally: self.is_busy = False; self.current_task = None" of
\* TemplateAgent.execute_task and ServerAgent.execute_task.
Release(a) == [a EXCEPT !.is_busy = FALSE, !.current_task = 0]

\* The awaits of execute_task of the template or server worker are over:
\* the result is built, update_performance counts it, the finally block
\* clears is_busy and current_task, and _execute_task goes on with it.
WorkerReturn(t, outcome) ==
    /\ t \in Submitted
    /\ pc[t] = "executing"
    /\ outcome \in HandlerOutcomes(task[t].type)
    /\ LET k == AssignedKey(t)
           result == WorkerResult(k, task[t].type, outcome)
           counted == UpdatePerformance(agents[k], result)
           after == [agents EXCEPT ![k] = Release(counted)]
       IN  FinishTask(t, result, ExecuteRaises(k), after)

\* The _execute_task coroutine of a task given to the coordinator or the
\* monitor worker: their execute_task has no await and touches neither
\* is_busy nor the counters, so the coroutine runs to its end in one step.
StubExecute(t) ==
    /\ t \in Submitted
    /\ pc[t] = "created"
    /\ AssignedKey(t) \in {"coordinator", "monitor"}
    /\ FinishTask(t, StubResult, ExecuteRaises(AssignedKey(t)), agents)

\* AgentOrchestrator.get_task_result is called for a submitted task and
\* starts polling.
GetTaskResult(id) ==
    /\ waiter.at = "idle"
    /\ id \in Submitted
    /\ waiter' = [at |-> "polling", id |-> id]
    /\ UNCHANGED <<running, task_queue, active_tasks, completed_tasks, system_metrics, agents, task, pc, loopsAtWhile, loopsAtGet, evicted>>

\* get_task_result, a pass of the loop that finds the task: "return task".
PollReturn ==
    /\ waiter.at = "polling"
    /\ GetTaskResultOnce(waiter.id) # 0
    /\ waiter' = [waiter EXCEPT !.at = "returned"]
    /\ UNCHANGED <<running, task_queue, active_tasks, completed_tasks, system_metrics, agents, task, pc, loopsAtWhile, loopsAtGet, evicted>>

\* get_task_result, the loop test fails because the timeout has elapsed:
\* "return None".  The test comes before the pass, so the call can give up
\* whatever the task's state is.
PollTimeout ==
    /\ waiter.at = "polling"
    /\ waiter' = [waiter EXCEPT !.at = "absent"]
    /\ UNCHANGED <<running, task_queue, active_tasks, completed_tasks, system_metrics, agents, task, pc, loopsAtWhile, loopsAtGet, evicted>>

Next ==
    \/ Start /\ UNCHANGED <<observed, memory>>
    \/ Stop /\ UNCHANGED <<observed, memory>>
    \/ (\E r \in Requests : SubmitTask(r[1], r[2])) /\ UNCHANGED <<observed, memory>>
    \/ LoopTest /\ UNCHANGED <<observed, memory>>
    \/ LoopTimeout /\ UNCHANGED <<observed, memory>>
    \/ Dispatch /\ UNCHANGED <<observed, memory>>
    \/ (\E t \in 1..MaxTasks : WorkerBegin(t)) /\ UNCHANGED <<observed, memory>>
    \/ (\E t \in 1..MaxTasks : \E o \in {"success", "failure", "exception"} : WorkerReturn(t, o)) /\ UNCHANGED <<observed, memory>>
    \/ (\E t \in 1..MaxTasks : StubExecute(t)) /\ UNCHANGED <<observed, memory>>

Spec == Init /\ [][Next]_vars

\* The submit_task calls explored under fairness: one per way a task can go
\* (a worker with awaits, a worker without, the idle-worker fallback, a
\* routing failure).
LiveRequests ==
    { <<"search_templates", None>>,
      <<"coordinate_agents", None>>,
      <<"bogus_type", None>>,
      <<"bogus_type", "ghost">> }

LiveNext ==
    \/ Start /\ UNCHANGED <<observed, memory>>
    \/ Stop /\ UNCHANGED <<observed, memory>>
    \/ (\E r \in LiveRequests : SubmitTask(r[1], r[2])) /\ UNCHANGED <<observed, memory>>
    \/ LoopTest /\ UNCHANGED <<observed, memory>>
    \/ LoopTimeout /\ UNCHANGED <<observed, memory>>
    \/ Dispatch /\ UNCHANGED <<observed, memory>>
    \/ (\E t \in 1..MaxTasks : WorkerBegin(t)) /\ UNCHANGED <<observed, memory>>
    \/ (\E t \in 1..MaxTasks : \E o \in {"success", "failure", "exception"} : WorkerReturn(t, o)) /\ UNCHANGED <<observed, memory>>
    \/ (\E t \in 1..MaxTasks : StubExecute(t)) /\ UNCHANGED <<observed, memory>>

\* The dispatcher and the execution activities are asyncio tasks of one
\* event loop, which runs every ready task; a worker call that returns lets
\* its execution activity go on.
LiveSpec ==
    /\ Init
    /\ [][LiveNext]_vars
    /\ WF_vars(LoopTest /\ UNCHANGED <<observed, memory>>)
    /\ WF_vars(Dispatch /\ UNCHANGED <<observed, memory>>)
    /\ \A t \in 1..MaxTasks : WF_vars(WorkerBegin(t) /\ UNCHANGED <<observed, memory>>)
    /\ \A t \in 1..MaxTasks : WF_vars((\E o \in {"success", "failure", "exception"} : WorkerReturn(t, o)) /\ UNCHANGED <<observed, memory>>)
    /\ \A t \in 1..MaxTasks : WF_vars(StubExecute(t) /\ UNCHANGED <<observed, memory>>)

RoutingNext ==
    \/ Start /\ UNCHANGED <<observed, memory>>
    \/ Stop /\ UNCHANGED <<observed, memory>>
    \/ (\E r \in RoutingRequests : SubmitTaskPriority(r[1], r[2], r[3])) /\ UNCHANGED <<observed, memory>>
    \/ LoopTest /\ UNCHANGED <<observed, memory>>
    \/ LoopTimeout /\ UNCHANGED <<observed, memory>>
    \/ Dispatch /\ UNCHANGED <<observed, memory>>
    \/ (\E t \in 1..MaxTasks : WorkerBegin(t)) /\ UNCHANGED <<observed, memory>>
    \/ (\E t \in 1..MaxTasks : \E o \in {"success", "failure", "exception"} : WorkerReturn(t, o)) /\ UNCHANGED <<observed, memory>>
    \/ (\E t \in 1..MaxTasks : StubExecute(t)) /\ UNCHANGED <<observed, memory>>

RoutingSpec == Init /\ [][RoutingNext]_vars

\* ------------------------------------------------------- MemoryService

\* Python's s[-n:] for n >= 0: the last n elements, and the whole list for
\* n = 0 or n >= len(s).
LastElements(s, n) ==
    IF n = 0 \/ n >= Len(s) THEN s ELSE SubSeq(s, Len(s) - n + 1, Len(s))

\* "memory_item and memory_item['expires'] > datetime.now().timestamp()".
Fresh(item) == item.set /\ item.live

\* MemoryService.get_conversation_history without a redis client: the
\* stored list if the user has an item that has not expired, else the empty
\* list; "return conversation[-limit:] if conversation else []".
GetConversationHistory(u, limit) ==
    LET conversation == IF Fresh(local_memory[u][ConversationKey])
                        THEN local_memory[u][ConversationKey].data
                        ELSE <<>>
    IN  IF conversation # <<>> THEN LastElements(conversation, limit) ELSE <<>>

\* What get_short_term returns without a redis client: the data of the
\* item under the key if it has not expired, else None (found = FALSE).
GetShortTerm(u, key) ==
    IF Fresh(local_memory[u][key])
    THEN [found |-> TRUE, data |-> local_memory[u][key].data]
    ELSE [found |-> FALSE, data |-> <<>>]

\* What get_long_term returns without a redis client.
GetLongTerm(u, key) ==
    IF Fresh(local_memory[u][LongKey(key)])
    THEN [found |-> TRUE, data |-> local_memory[u][LongKey(key)].data]
    ELSE [found |-> FALSE, data |-> <<>>]

\* MemoryService.store_short_term without a redis client.
StoreShortTerm(u, key, data) ==
    /\ local_memory' = [local_memory EXCEPT ![u][key] = [set |-> TRUE, data |-> data, live |-> TRUE]]
    /\ UNCHANGED stored

\* MemoryService.store_long_term without a redis client.
StoreLongTerm(u, key, data) ==
    /\ local_memory' = [local_memory EXCEPT ![u][LongKey(key)] = [set |-> TRUE, data |-> data, live |-> TRUE]]
    /\ UNCHANGED stored

\* A call of get_short_term that finds an expired item: "elif memory_item:
\* del user_memory[key]".
GetShortTermExpired(u, key) ==
    /\ local_memory[u][key].set
    /\ ~local_memory[u][key].live
    /\ local_memory' = [local_memory EXCEPT ![u][key] = NoItem]
    /\ UNCHANGED stored

\* A call of get_long_term that finds an expired item.
GetLongTermExpired(u, key) ==
    /\ local_memory[u][LongKey(key)].set
    /\ ~local_memory[u][LongKey(key)].live
    /\ local_memory' = [local_memory EXCEPT ![u][LongKey(key)] = NoItem]
    /\ UNCHANGED stored

\* MemoryService.store_conversation without a redis client: read the
\* history with the default limit, append the message, keep the last
\* ConversationCap, store the list with a new expiry.  The message is
\* identified by its number among the user's messages.
StoreConversation(u) ==
    /\ stored[u].total < MaxStored
    /\ LET message == stored[u].total + 1
           conversation == Append(GetConversationHistory(u, DefaultLimit), message)
           kept == IF Len(conversation) > ConversationCap
                   THEN SubSeq(conversation, Len(conversation) - ConversationCap + 1, Len(conversation))
                   ELSE conversation
       IN  /\ local_memory' = [local_memory EXCEPT ![u][ConversationKey] = [set |-> TRUE, data |-> kept, live |-> TRUE]]
           /\ stored' = [stored EXCEPT ![u] = [total |-> message,
                                                fresh |-> IF Fresh(local_memory[u][ConversationKey])
                                                          THEN @.fresh + 1 ELSE 1]]

\* The time to live of an item passes without a store under its key:
\* "memory_item['expires'] > datetime.now().timestamp()" is false from now
\* on.
ExpireItem(u, dk) ==
    /\ Fresh(local_memory[u][dk])
    /\ local_memory' = [local_memory EXCEPT ![u][dk].live = FALSE]
    /\ UNCHANGED stored

\* conversation_ttl passes without a store_conversation.
ExpireConversation(u) == ExpireItem(u, ConversationKey)

MemNext ==
    \/ (\E u \in UserIds : StoreConversation(u)) /\ UNCHANGED <<orchestrator, observed>>
    \/ (\E u \in UserIds : ExpireConversation(u)) /\ UNCHANGED <<orchestrator, observed>>

MemSpec == Init /\ [][MemNext]_vars

\* The user whose three stores are explored together.
KeyUsers == {1}

\* The three stores of MemoryService used together, with few conversation
\* messages.
KeyNext ==
    \/ (\E u \in KeyUsers : \E key \in Keys : \E data \in Values : StoreShortTerm(u, key, data)) /\ UNCHANGED <<orchestrator, observed>>
    \/ (\E u \in KeyUsers : \E key \in Keys : \E data \in Values : StoreLongTerm(u, key, data)) /\ UNCHANGED <<orchestrator, observed>>
    \/ (\E u \in KeyUsers : stored[u].total < MaxKeyMessages /\ StoreConversation(u)) /\ UNCHANGED <<orchestrator, observed>>
    \/ (\E u \in KeyUsers : \E dk \in DictKeys : ExpireItem(u, dk)) /\ UNCHANGED <<orchestrator, observed>>
    \/ (\E u \in KeyUsers : \E key \in Keys : GetShortTermExpired(u, key)) /\ UNCHANGED <<orchestrator, observed>>
    \/ (\E u \in KeyUsers : \E key \in Keys : GetLongTermExpired(u, key)) /\ UNCHANGED <<orchestrator, observed>>

KeySpec == Init /\ [][KeyNext]_vars

\* The submit_task calls explored together with a get_task_result call: a
\* task for a worker with awaits and one for a worker without.
PollRequests ==
    {<<"search_templates", None>>, <<"bogus_type", None>>}

PollNext ==
    \/ Start /\ UNCHANGED <<observed, memory>>
    \/ Stop /\ UNCHANGED <<observed, memory>>
    \/ (\E r \in PollRequests : SubmitTask(r[1], r[2])) /\ UNCHANGED <<observed, memory>>
    \/ (\E id \in 1..MaxTasks : GetTaskResult(id)) /\ UNCHANGED <<observed, memory>>
    \/ PollReturn /\ UNCHANGED <<observed, memory>>
    \/ PollTimeout /\ UNCHANGED <<observed, memory>>
    \/ LoopTest /\ UNCHANGED <<observed, memory>>
    \/ LoopTimeout /\ UNCHANGED <<observed, memory>>
    \/ Dispatch /\ UNCHANGED <<observed, memory>>
    \/ (\E t \in 1..MaxTasks : WorkerBegin(t)) /\ UNCHANGED <<observed, memory>>
    \/ (\E t \in 1..MaxTasks : \E o \in {"success", "failure", "exception"} : WorkerReturn(t, o)) /\ UNCHANGED <<observed, memory>>
    \/ (\E t \in 1..MaxTasks : StubExecute(t)) /\ UNCHANGED <<observed, memory>>

\* The orchestrator with a caller of get_task_result, under the scheduling
\* of LiveSpec.  The caller's clock is not constrained.
PollSpec ==
    /\ Init
    /\ [][PollNext]_vars
    /\ WF_vars(LoopTest /\ UNCHANGED <<observed, memory>>)
    /\ WF_vars(Dispatch /\ UNCHANGED <<observed, memory>>)
    /\ \A t \in 1..MaxTasks : WF_vars(WorkerBegin(t) /\ UNCHANGED <<observed, memory>>)
    /\ \A t \in 1..MaxTasks : WF_vars((\E o \in {"success", "failure", "exception"} : WorkerReturn(t, o)) /\ UNCHANGED <<observed, memory>>)
    /\ \A t \in 1..MaxTasks : WF_vars(StubExecute(t) /\ UNCHANGED <<observed, memory>>)

\* The submit_task calls explored with the record of the lifecycle calls.
LifeRequests ==
    {<<"search_templates", None>>, <<"bogus_type", None>>}

\* The orchestrator with the record of its restarts: start() after a stop()
\* is a restart, and a task submitted after a restart is renewed.
RestartNext ==
    \/ /\ Start
       /\ lifecycle' = IF lifecycle = "stopped" THEN "restarted" ELSE lifecycle
       /\ UNCHANGED <<stale, renewed, memory>>
    \/ /\ Stop
       /\ lifecycle' = IF lifecycle = "initial" THEN "stopped" ELSE lifecycle
       /\ UNCHANGED <<stale, renewed, memory>>
    \/ /\ \E r \in LifeRequests : SubmitTask(r[1], r[2])
       /\ renewed' = IF lifecycle = "restarted" THEN renewed \cup {Cardinality(Submitted) + 1} ELSE renewed
       /\ UNCHANGED <<lifecycle, stale, memory>>
    \/ LoopTest /\ UNCHANGED <<observed, memory>>
    \/ LoopTimeout /\ UNCHANGED <<observed, memory>>
    \/ Dispatch /\ UNCHANGED <<observed, memory>>
    \/ (\E t \in 1..MaxTasks : WorkerBegin(t)) /\ UNCHANGED <<observed, memory>>
    \/ (\E t \in 1..MaxTasks : \E o \in {"success", "failure", "exception"} : WorkerReturn(t, o)) /\ UNCHANGED <<observed, memory>>
    \/ (\E t \in 1..MaxTasks : StubExecute(t)) /\ UNCHANGED <<observed, memory>>

RestartSpec ==
    /\ Init
    /\ [][RestartNext]_vars
    /\ WF_vars(LoopTest /\ UNCHANGED <<observed, memory>>)
    /\ WF_vars(Dispatch /\ UNCHANGED <<observed, memory>>)
    /\ \A t \in 1..MaxTasks : WF_vars(WorkerBegin(t) /\ UNCHANGED <<observed, memory>>)
    /\ \A t \in 1..MaxTasks : WF_vars((\E o \in {"success", "failure", "exception"} : WorkerReturn(t, o)) /\ UNCHANGED <<observed, memory>>)
    /\ \A t \in 1..MaxTasks : WF_vars(StubExecute(t) /\ UNCHANGED <<observed, memory>>)

\* The orchestrator with the record of what stop() left behind: stop()
\* marks the tasks then in the queue as stale.
StaleNext ==
    \/ Start /\ UNCHANGED <<observed, memory>>
    \/ /\ Stop
       /\ stale' = stale \cup Range(task_queue)
       /\ UNCHANGED <<lifecycle, renewed, memory>>
    \/ (\E r \in LifeRequests : SubmitTask(r[1], r[2])) /\ UNCHANGED <<observed, memory>>
    \/ LoopTest /\ UNCHANGED <<observed, memory>>
    \/ LoopTimeout /\ UNCHANGED <<observed, memory>>
    \/ Dispatch /\ UNCHANGED <<observed, memory>>
    \/ (\E t \in 1..MaxTasks : WorkerBegin(t)) /\ UNCHANGED <<observed, memory>>
    \/ (\E t \in 1..MaxTasks : \E o \in {"success", "failure", "exception"} : WorkerReturn(t, o)) /\ UNCHANGED <<observed, memory>>
    \/ (\E t \in 1..MaxTasks : StubExecute(t)) /\ UNCHANGED <<observed, memory>>

StaleSpec ==
    /\ Init
    /\ [][StaleNext]_vars
    /\ WF_vars(LoopTest /\ UNCHANGED <<observed, memory>>)
    /\ WF_vars(Dispatch /\ UNCHANGED <<observed, memory>>)
    /\ \A t \in 1..MaxTasks : WF_vars(WorkerBegin(t) /\ UNCHANGED <<observed, memory>>)
    /\ \A t \in 1..MaxTasks : WF_vars((\E o \in {"success", "failure", "exception"} : WorkerReturn(t, o)) /\ UNCHANGED <<observed, memory>>)
    /\ \A t \in 1..MaxTasks : WF_vars(StubExecute(t) /\ UNCHANGED <<observed, memory>>)

\* ---------------------------------------------------------------- claims

InQueue(t) == t \in Range(task_queue)

InHistory(t) == t \in Range(completed_tasks)

Terminal(t) == task[t].status \in {COMPLETED, FAILED}

KnownTypes == TemplateTypes \cup ServerTypes \cup CoordinatorTypes \cup MonitorTypes

Executing(k) == {t \in Submitted : pc[t] = "executing" /\ AssignedKey(t) = k}

\* C1 as stated: every submitted task that was not evicted from the history
\* is in the active registry or in the completed history, also while it is
\* still waiting in the queue.
C1_RegisteredOnceSubmitted ==
    \A t \in Submitted : t \notin evicted => (t \in active_tasks \/ InHistory(t))

\* C1, amended: a task that the dispatcher has taken from the queue and that
\* was not evicted from the history is in the active registry or in the
\* completed history; a task still in the queue is in neither.
C1_RegisteredOnceDequeued ==
    \A t \in Submitted :
        /\ (pc[t] # "queued" /\ t \notin evicted) => (t \in active_tasks \/ InHistory(t))
        /\ pc[t] = "queued" => (t \notin active_tasks /\ ~InHistory(t))

C1_Witness ==
    \E t, u, v \in Submitted :
        /\ pc[t] = "queued"
        /\ pc[u] = "executing" /\ u \in active_tasks
        /\ pc[v] = "done" /\ InHistory(v)

\* C2: no task id is in the active registry and in the completed history at
\* the same time.
C2_NeverActiveAndCompleted ==
    \A t \in Submitted : ~(t \in active_tasks /\ InHistory(t))

C2_Witness ==
    \E t, u \in Submitted :
        /\ t # u
        /\ pc[t] = "executing" /\ pc[u] = "executing" /\ AssignedKey(t) = AssignedKey(u)
        /\ \E v \in Submitted : InHistory(v) /\ task[v].assigned_agent # None

\* C3: the completed history never holds more entries than the history
\* limit.
C3_HistoryWithinCap == Len(completed_tasks) <= HistoryCap

\* C4: every FAILED task carries an error on the task record itself.
C4_FailedHasError ==
    \A t \in Submitted : task[t].status = FAILED => task[t].error # None

\* C5: a task of a type outside the routing table, with no pin, never
\* becomes COMPLETED and ends FAILED with the 'Unknown task type' result of
\* the worker it was given to.
C5_UnknownTypeFails ==
    \A t \in Submitted :
        (task[t].type \notin KnownTypes /\ ~IsPinned(t)) =>
            /\ task[t].status # COMPLETED
            /\ pc[t] = "done" => (task[t].status = FAILED /\ task[t].result.error = "Unknown task type")

\* C6: a worker is busy exactly while a task assigned to it is inside
\* execute_task.
C6_BusyIffExecuting ==
    \A k \in AgentKeys : agents[k].is_busy <=> Executing(k) # {}

\* C7: the status of a task that is COMPLETED or FAILED never changes.
C7_TerminalIsAbsorbing ==
    [][\A t \in Submitted : Terminal(t) => task'[t].status = task[t].status]_vars

C7_Witness ==
    \E t, u, v \in Submitted :
        /\ task[t].status = COMPLETED
        /\ task[u].status = FAILED
        /\ pc[v] = "created"
        /\ ~running

\* C8: while the orchestrator is running, every submitted task eventually
\* is COMPLETED or FAILED and has been appended to the completed history.
C8_EveryTaskFinishes ==
    \A t \in 1..MaxTasks :
        (t \in Submitted /\ running) ~>
            ((t \in Submitted /\ Terminal(t) /\ (InHistory(t) \/ t \in evicted)) \/ ~running)

C8_Witness ==
    /\ running
    /\ Submitted = 1..MaxTasks
    /\ \A t \in Submitted : Terminal(t)
    /\ \E t \in Submitted : task[t].status = COMPLETED
    /\ \E t \in Submitted : task[t].status = FAILED /\ task[t].assigned_agent # None

\* C9: every submitted task is in the queue, in the active registry or in
\* the completed history, unless the history limit evicted it.
C9_NoTaskLost ==
    \A t \in Submitted : InQueue(t) \/ t \in active_tasks \/ InHistory(t) \/ t \in evicted

C9_Witness ==
    /\ ~running
    /\ evicted # {}
    /\ \E t \in Submitted : task[t].error = "No suitable agent found" /\ InHistory(t)

\* C10: a task submitted with a pinned worker name is given to the worker
\* stored under that name and to no other, whatever its type and whether or
\* not that worker is busy.
C10_PinnedWorkerIsUsed ==
    \A t \in Submitted :
        (IsPinned(t) /\ pc[t] # "queued") => task[t].assigned_agent = AgentName(task[t].required_agent)

C10_Witness ==
    \E t, u \in Submitted :
        /\ task[t].required_agent = "template"
        /\ task[t].type \in ServerTypes
        /\ pc[t] = "created"
        /\ task[t].assigned_agent = "TemplateAgent"
        /\ pc[u] = "executing" /\ AssignedKey(u) = "template"
        /\ agents["template"].is_busy

\* The worker the type table of _select_agent names for a listed type.
ListedWorker(type) ==
    CASE type \in {"search_templates", "analyze_template", "recommend_templates", "categorize_templates"} -> "template"
      [] type \in {"import_template", "export_workflow", "activate_workflow", "deactivate_workflow", "get_workflows", "monitor_system"} -> "server"
      [] type \in {"coordinate_agents", "plan_execution"} -> "coordinator"
      [] type \in {"system_health", "performance_analysis"} -> "monitor"

\* C11: for a task of a listed type with no pin the selection depends on the
\* type alone: in every reachable state, whatever the workers' busy flags and
\* counters and the queue and registries hold, _select_agent gives the worker
\* of the type table, and a dispatched task was given to that worker.
C11_RoutingByTypeOnly ==
    \A t \in Submitted :
        (~IsPinned(t) /\ task[t].type \in KnownTypes) =>
            /\ SelectAgent(t) = ListedWorker(task[t].type)
            /\ pc[t] # "queued" => task[t].assigned_agent = AgentName(ListedWorker(task[t].type))

C11_Witness ==
    \E t, u \in Submitted :
        /\ t # u
        /\ ~IsPinned(t) /\ task[t].type = "search_templates"
        /\ pc[u] = "executing" /\ AssignedKey(u) = "template" /\ agents["template"].is_busy
        /\ ~agents["server"].is_busy
        /\ agents["server"].tasks_completed > agents["template"].tasks_completed
        /\ pc[t] = "created" /\ task[t].assigned_agent = "TemplateAgent"

\* C12: the case of the claim, a dispatch while every worker is busy, does
\* not arise: the coordinator and the monitor never set is_busy, so in every
\* reachable state some worker is idle and the fallback of _select_agent
\* finds one.
C12_SomeWorkerIdle ==
    /\ ~agents["coordinator"].is_busy
    /\ ~agents["monitor"].is_busy
    /\ \A t \in Submitted : ~IsPinned(t) => SelectAgent(t) # None

\* C13: when the execution activity of a task appends it to the history,
\* the history becomes the old history followed by that task, cut to its
\* last HistoryCap entries when that is longer than the limit; the task just
\* finished is in the history, and get_task_result finds no evicted task.
C13_OldestEvictedFirst ==
    /\ [](\A t \in evicted : GetTaskResultOnce(t) = 0)
    /\ [][\A t \in Submitted :
            (pc[t] \in {"created", "executing"} /\ pc'[t] = "done") =>
                LET a == Append(completed_tasks, t)
                IN  /\ completed_tasks' = IF Len(a) > HistoryCap
                                          THEN SubSeq(a, Len(a) - HistoryCap + 1, Len(a))
                                          ELSE a
                    /\ t \in Range(completed_tasks')]_vars

C13_Witness ==
    /\ evicted # {}
    /\ Len(completed_tasks) = HistoryCap
    /\ \A t \in evicted : GetTaskResultOnce(t) = 0
    /\ task[completed_tasks[Len(completed_tasks)]].status = COMPLETED
    /\ GetTaskResultOnce(completed_tasks[Len(completed_tasks)]) = completed_tasks[Len(completed_tasks)]

\* C14: after stop() followed by start(), every task submitted after that
\* start() is, while the orchestrator is running, eventually taken from the
\* queue and COMPLETED or FAILED.
C14_RestartResumesProcessing ==
    \A t \in 1..MaxTasks :
        (t \in renewed /\ running) ~>
            ((t \in Submitted /\ pc[t] = "done" /\ Terminal(t)) \/ ~running)

C14_Witness ==
    \E t \in renewed :
        /\ lifecycle = "restarted"
        /\ running
        /\ pc[t] = "done"
        /\ task[t].status = COMPLETED

\* C15: a task that was in the queue when stop() was called is never given
\* to a worker once the orchestrator runs again.
C15_StaleNeverDispatched ==
    [][\A t \in stale : (running /\ pc[t] = "queued") => pc'[t] # "created"]_vars

\* C17: the step in which get_task_result gives up changes no task, queue,
\* registry, worker or counter; and the task it waited for is, while the
\* orchestrator is running, eventually COMPLETED or FAILED and recorded in
\* the completed history.
C17_TimeoutLeavesTaskRunning ==
    /\ [][(waiter.at = "polling" /\ waiter'.at = "absent") =>
            UNCHANGED <<running, task_queue, active_tasks, completed_tasks, system_metrics, agents, task, pc, evicted>>]_vars
    /\ (waiter.at = "absent" /\ running) ~>
            ((waiter.at = "absent" /\ Terminal(waiter.id) /\ (InHistory(waiter.id) \/ waiter.id \in evicted)) \/ ~running)

C17_Witness ==
    /\ waiter.at = "absent"
    /\ running
    /\ pc[waiter.id] = "executing"
    /\ task[waiter.id].status = IN_PROGRESS
    /\ ~InHistory(waiter.id)

\* C16: every execute_task call that returns raises exactly one of the
\* worker's tasks_completed / tasks_failed by one, tasks_completed exactly
\* when the result reports success, and no counter ever decreases.
C16_CountersFollowResults ==
    [][\A k \in AgentKeys :
        /\ agents'[k].tasks_completed >= agents[k].tasks_completed
        /\ agents'[k].tasks_failed >= agents[k].tasks_failed
        /\ \A t \in Submitted :
            (pc[t] \in {"created", "executing"} /\ pc'[t] = "done" /\ AssignedKey(t) = k) =>
                /\ agents'[k].tasks_completed + agents'[k].tasks_failed = agents[k].tasks_completed + agents[k].tasks_failed + 1
                /\ agents'[k].tasks_completed = agents[k].tasks_completed + 1 <=> task'[t].result.success]_vars

\* C18: no task ever has status CANCELLED.
C18_NeverCancelled ==
    \A t \in Submitted : task[t].status \in TaskStatus \ {CANCELLED}

C18_Witness ==
    \E t, u, v \in Submitted :
        /\ task[t].status = FAILED /\ task[t].assigned_agent # None
        /\ task[u].status = FAILED /\ task[u].assigned_agent = None
        /\ task[v].status = COMPLETED
        /\ ~running

\* C19: after n <= ConversationCap messages were stored one by one for a
\* user with no expiry in between, get_conversation_history(user, limit = n)
\* is the list of those n messages in the order they were stored.
C19_HistoryKeepsLastMessages ==
    \A u \in UserIds :
        (Fresh(local_memory[u][ConversationKey]) /\ stored[u].fresh <= ConversationCap) =>
            GetConversationHistory(u, stored[u].fresh) =
                [i \in 1..stored[u].fresh |-> stored[u].total - stored[u].fresh + i]

\* C20: a dispatcher suspended in the queue wait takes the next queued task
\* whatever executions are in flight; the witness is a state in which the
\* task submitted later is finished while the one submitted earlier, and
\* dispatched before it, is still IN_PROGRESS.
C20_DispatcherDoesNotWait ==
    (loopsAtGet > 0 /\ task_queue # <<>>) => ENABLED Dispatch

C20_Witness ==
    \E t, u \in Submitted :
        /\ t < u
        /\ task[t].status = IN_PROGRESS
        /\ task[u].assigned_agent # None
        /\ Terminal(u)

\* C21: tasks leave the queue in submission order, whatever their
\* priorities: a task is still queued only if every task submitted after it
\* is still queued, and the queue holds the queued tasks in submission order.
C21_DispatchedInSubmissionOrder ==
    /\ \A t, u \in Submitted : (t < u /\ pc[t] = "queued") => pc[u] = "queued"
    /\ \A i, j \in 1..Len(task_queue) : i < j => task_queue[i] < task_queue[j]

C21_Witness ==
    \E t, u \in Submitted :
        /\ t < u
        /\ PriorityValue(task[u].priority) < PriorityValue(task[t].priority)
        /\ pc[t] = "created"
        /\ pc[u] = "queued"
        /\ loopsAtGet > 0

\* C22: for a task with no pin and a type in no entry of the routing table,
\* _select_agent gives an idle worker such that no idle worker has more
\* completed tasks, or no worker when none is idle; and the dispatcher
\* assigns the task to the worker selected.
C22_FallbackPicksBestIdle ==
    /\ [](\A t \in Submitted :
            (~IsPinned(t) /\ task[t].type \notin KnownTypes) =>
                LET idle == {k \in AgentKeys : ~agents[k].is_busy}
                    a == SelectAgent(t)
                IN  IF idle = {} THEN a = None
                    ELSE /\ a \in idle
                         /\ \A k \in idle : agents[k].tasks_completed <= agents[a].tasks_completed)
    /\ [][\A t \in Submitted :
            (~IsPinned(t) /\ task[t].type \notin KnownTypes /\ pc[t] = "queued" /\ pc'[t] # "queued") =>
                /\ SelectAgent(t) # None
                /\ pc'[t] = "created"
                /\ task'[t].assigned_agent = AgentName(SelectAgent(t))]_vars

C22_Witness ==
    \E t \in Submitted :
        /\ ~IsPinned(t) /\ task[t].type \notin KnownTypes
        /\ pc[t] = "created"
        /\ task[t].assigned_agent = "ServerAgent"
        /\ ~agents["template"].is_busy
        /\ agents["server"].tasks_completed > agents["template"].tasks_completed

\* C23: at most one dispatcher loop is active: at most one _task_processor
\* coroutine waits on the queue and, while the orchestrator is running, at
\* most one exists.
C23_AtMostOneDispatcher ==
    /\ loopsAtGet <= 1
    /\ running => loopsAtWhile + loopsAtGet <= 1

\* C25: total_tasks is the number of queued tasks plus the number of
\* registered tasks plus the completed_tasks and failed_tasks metrics.
C25_MetricsAccountForEveryTask ==
    system_metrics.total_tasks =
        Len(task_queue) + Cardinality(active_tasks) + system_metrics.completed_tasks + system_metrics.failed_tasks

\* C27: while the orchestrator is stopped no task leaves the queue.
C27_NothingDispatchedWhenStopped ==
    [][~running => \A t \in Submitted : pc[t] = "queued" => pc'[t] = "queued"]_vars

\* C24: whatever the collaborator call did, execute_task of the template or
\* server worker returns a result with a success flag and _execute_task
\* never sees an exception: the task gets the result, is COMPLETED when the
\* result reports success and FAILED with the result's error text when it
\* does not, and the dispatcher loops are as they were.
C24_WorkersReturnFailureResults ==
    [][\A t \in Submitted :
        (pc[t] = "executing" /\ pc'[t] = "done") =>
            /\ task'[t].result.set
            /\ task'[t].error = None
            /\ task'[t].result.success => task'[t].status = COMPLETED
            /\ ~task'[t].result.success => (task'[t].status = FAILED /\ task'[t].result.error # None)
            /\ loopsAtWhile' = loopsAtWhile
            /\ loopsAtGet' = loopsAtGet]_vars

C24_Witness ==
    \E t \in Submitted :
        /\ pc[t] = "done"
        /\ task[t].result.set
        /\ task[t].result.error = "collaborator exception"
        /\ task[t].status = FAILED
        /\ running
        /\ loopsAtGet > 0

\* C29: when no execution is in flight on the template or server worker,
\* its is_busy is false and its current_task is empty, whichever way the
\* executions on it ended.
C29_IdleWorkerIsReleased ==
    \A k \in {"template", "server"} :
        Executing(k) = {} => (~agents[k].is_busy /\ agents[k].current_task = 0)

C29_Witness ==
    \E t, u, v \in Submitted :
        /\ pc[t] = "done" /\ task[t].result.success /\ task[t].assigned_agent = "ServerAgent"
        /\ pc[u] = "done" /\ task[u].result.error = "Unknown task type"
        /\ pc[v] = "done" /\ task[v].result.error = "collaborator exception"
        /\ \A k \in {"template", "server"} : Executing(k) = {} /\ ~agents[k].is_busy /\ agents[k].current_task = 0

\* The position of a task's processing: queued, execution created, worker
\* call in progress, finished.
Progress(p) ==
    CASE p = "queued" -> 0
      [] p = "created" -> 1
      [] p = "executing" -> 2
      [] p = "done" -> 3

\* C26: each task is taken from the queue once, executed at most once and
\* recorded at most once, however many dispatcher loops run: the queue and
\* the history hold no id twice, a task is in the queue exactly while no
\* dispatcher has taken it, its processing never goes back to an earlier
\* position, and each step adds a task to the history at most once.
C26_EachTaskProcessedOnce ==
    /\ [](/\ \A i, j \in 1..Len(task_queue) : i # j => task_queue[i] # task_queue[j]
          /\ \A i, j \in 1..Len(completed_tasks) : i # j => completed_tasks[i] # completed_tasks[j]
          /\ \A t \in Submitted : InQueue(t) <=> pc[t] = "queued"
          /\ \A t \in Submitted : InHistory(t) => pc[t] = "done"
          /\ \A t \in evicted : ~InHistory(t) /\ pc[t] = "done")
    /\ [][\A t \in Submitted : Progress(pc'[t]) >= Progress(pc[t])]_vars

C26_Witness ==
    /\ loopsAtGet = MaxLoops
    /\ Submitted = 1..MaxTasks
    /\ \A t \in Submitted : pc[t] = "done" /\ (InHistory(t) \/ t \in evicted)
    /\ \E t \in Submitted : task[t].assigned_agent = "TemplateAgent"

\* C28: a task pinned to a name that is no key of the pool gets no worker
\* from _select_agent; once it has left the queue it is FAILED with the
\* routing error, was assigned to no worker, has no result and is not in the
\* active registry, whatever its type and whichever workers are idle.
C28_UnknownPinFailsRouting ==
    \A t \in Submitted :
        (IsPinned(t) /\ task[t].required_agent \notin AgentKeys) =>
            /\ SelectAgent(t) = None
            /\ pc[t] \in {"queued", "done"}
            /\ pc[t] = "done" =>
                /\ task[t].status = FAILED
                /\ task[t].error = "No suitable agent found"
                /\ task[t].assigned_agent = None
                /\ ~task[t].result.set
                /\ t \notin active_tasks

C28_Witness ==
    \E t \in Submitted :
        /\ task[t].required_agent = "ghost"
        /\ task[t].type \in TemplateTypes
        /\ pc[t] = "done"
        /\ task[t].error = "No suitable agent found"
        /\ InHistory(t)
        /\ \A k \in AgentKeys : ~agents[k].is_busy

\* C30: a store into one of the short-term, long-term and conversation
\* stores of a user changes what no get on another of them returns.
C30_StoresDoNotInterfere ==
    [][\A u \in KeyUsers :
        /\ \A key \in Keys : \A data \in Values :
            StoreShortTerm(u, key, data) =>
                /\ \A k \in Keys : GetLongTerm(u, k)' = GetLongTerm(u, k)
                /\ GetConversationHistory(u, DefaultLimit)' = GetConversationHistory(u, DefaultLimit)
        /\ \A key \in Keys : \A data \in Values :
            StoreLongTerm(u, key, data) =>
                /\ \A k \in Keys : GetShortTerm(u, k)' = GetShortTerm(u, k)
                /\ GetConversationHistory(u, DefaultLimit)' = GetConversationHistory(u, DefaultLimit)
        /\ StoreConversation(u) =>
                /\ \A k \in Keys : GetShortTerm(u, k)' = GetShortTerm(u, k)
                /\ \A k \in Keys : GetLongTerm(u, k)' = GetLongTerm(u, k)]_vars

====
